---------------------------- MODULE Spec2Model ----------------------------
(***************************************************************************)
(* Model of the Oscar movie search service: the EsClient bridge            *)
(* (server/app/search/es_client.py) and the HTTP handlers that drive it    *)
(* (server/main.py), over an abstract document store.                      *)
(*                                                                         *)
(* The store is the environment.  It holds one index record per index      *)
(* name; every request to it may fail in transport, which the client       *)
(* library reports by raising.  Each call action below is one whole        *)
(* handler call, made while the service is idle: it records the request    *)
(* (req), the store requests it issued (calls), the raw response of its    *)
(* query (raw), what EsClient returned (ret) and what the HTTP caller      *)
(* received (resp).  Respond hands the response over and leaves the        *)
(* service idle again; Keep does the same and remembers the call in hist,  *)
(* for the properties that relate consecutive calls.  callers holds the    *)
(* position of each thread that runs create_index request by request, for  *)
(* the properties of calls made at the same time.                          *)
(***************************************************************************)
EXTENDS Integers, Sequences, FiniteSets, TLC

VARIABLES indices, req, calls, raw, ret, resp, hist, callers

vars == <<indices, req, calls, raw, ret, resp, hist, callers>>

----------------------------------------------------------------------------
(* Bounds of the model *)

MaxDocs == 2      \* documents an index holds at most
MaxBulk == 2      \* documents in the JSON file at most
MaxSize == 1      \* largest explicit size / limit a caller passes, besides the default
MaxOffset == 1    \* largest offset a caller passes
MaxCallers == 3   \* threads that call create_index at the same time

(* Program constants *)

DefaultSize == 10       \* EsClient.search(size=10), search_movies(size=10)
DefaultLimit == 20      \* get_all_movies(limit=20)
SuggestSize == 5        \* suggest_search(size=5)
BoostExact == 2         \* advanced_fuzzy_search(boost_exact=2.0)

MOVIE_INDEX == "oscar_movies"

----------------------------------------------------------------------------
(* Text.  A text value is a sequence of words, a word a sequence of        *)
(* one-character strings; case is kept in stored values.                   *)

Lower(c) ==
    CASE c = "W" -> "w"
      [] c = "H" -> "h"
      [] c = "U" -> "u"
      [] c = "A" -> "a"
      [] c = "D" -> "d"
      [] c = "F" -> "f"
      [] OTHER -> c

LowerWord(w) == [i \in 1..Len(w) |-> Lower(w[i])]

\* the standard analyzer: one lower-cased token per word
Analyze(text) == [i \in 1..Len(text) |-> LowerWord(text[i])]

Min(a, b) == IF a < b THEN a ELSE b
Max(a, b) == IF a > b THEN a ELSE b

RECURSIVE EditDistance(_, _)
EditDistance(a, b) ==
    IF Len(a) = 0 THEN Len(b)
    ELSE IF Len(b) = 0 THEN Len(a)
    ELSE IF a[1] = b[1] THEN EditDistance(Tail(a), Tail(b))
    ELSE 1 + Min(EditDistance(Tail(a), Tail(b)),
                 Min(EditDistance(Tail(a), b), EditDistance(a, Tail(b))))

IsPrefix(p, w) == Len(p) <= Len(w) /\ SubSeq(w, 1, Len(p)) = p

----------------------------------------------------------------------------
(* Documents.  A document is what the JSON file or a caller supplies:      *)
(* hasTs says whether it has a "timestamp" key, malformed whether the      *)
(* store's validation rejects it.                                          *)

Doc(name, genre, summary, oscar, hasTs, ts, malformed) ==
    [name |-> name, genre |-> genre, summary |-> summary, oscar |-> oscar,
     hasTs |-> hasTs, timestamp |-> ts, malformed |-> malformed]

Drama == << <<"D","r","a","m","a">> >>
Family == << <<"F","a","m","i","l","y">> >>

WarHorse == Doc(<< <<"W","a","r">>, <<"H","o","r","s","e">> >>, Drama,
                << <<"a">>, <<"h","o","r","s","e">> >>, 2011, FALSE, 0, FALSE)
Wax      == Doc(<< <<"W","a","x">> >>, Drama, << <<"w","a","x">> >>, 1953, FALSE, 0, FALSE)
Up       == Doc(<< <<"U","p">> >>, Family, << <<"A">>, <<"w","a","r">> >>, 2009, TRUE, 0, FALSE)
Broken   == Doc(<< <<"W","a","r">> >>, Drama, << <<"w","a","r">> >>, 2011, FALSE, 0, TRUE)

InputDocs == {WarHorse, Wax, Up, Broken}

\* the wall-clock reading of datetime.now()
Times == {1}

\* what callers type into the search box
Terms == { << <<"w","a","r">> >>, << <<"H","o","r","s","e">>, <<"W","a","r">> >> }

----------------------------------------------------------------------------
(* The index schema *)

Field(f, type, keyword) == [field |-> f, type |-> type, keyword |-> keyword]

create_movie_mapping ==
    { Field("name", "text", TRUE),
      Field("oscar", "integer", FALSE),
      Field("released_year", "integer", FALSE),
      Field("poster", "keyword", FALSE),
      Field("rating", "keyword", FALSE),
      Field("duration", "text", FALSE),
      Field("genre", "text", TRUE),
      Field("summary", "text", FALSE),
      Field("directors", "text", TRUE),
      Field("stars", "text", TRUE) }

\* the mapping of an index created without one (dynamic mapping)
NoMapping == {}

----------------------------------------------------------------------------
(* The store *)

NoIndex == [exists |-> FALSE, mapping |-> NoMapping, docs |-> <<>>]

IndexExists(ix, name) == ix[name].exists

\* the id the store assigns to a new document: one no stored document has
NextId(docs) ==
    CHOOSE n \in 1..(Len(docs) + 1) :
        /\ \A j \in 1..Len(docs) : docs[j].id # n
        /\ \A m \in 1..(n - 1) : \E j \in 1..Len(docs) : docs[j].id = m

\* writing one document: an absent index is created on the way, with no mapping
StoreWrite(index, doc) ==
    [exists |-> TRUE,
     mapping |-> index.mapping,
     docs |-> Append(index.docs, [id |-> NextId(index.docs), source |-> doc])]

RECURSIVE StoreWriteAll(_, _)
StoreWriteAll(index, docs) ==
    IF Len(docs) = 0 THEN index
    ELSE StoreWriteAll(StoreWrite(index, docs[1]), Tail(docs))

RECURSIVE Accepted(_)
Accepted(docs) ==
    IF Len(docs) = 0 THEN <<>>
    ELSE IF docs[1].malformed THEN Accepted(Tail(docs))
    ELSE <<docs[1]>> \o Accepted(Tail(docs))

Rejected(docs) == Len(docs) - Len(Accepted(docs))


----------------------------------------------------------------------------
(* What a call leaves behind *)

NoRaw == [ok |-> FALSE, hasHits |-> FALSE, hits |-> <<>>, hasTotal |-> FALSE, total |-> 0,
          hasSuggest |-> FALSE, groups |-> <<>>, hasAggs |-> FALSE, buckets |-> <<>>]

RetNone == [kind |-> "none", ok |-> FALSE, items |-> <<>>, id |-> 0]
RetBool(b) == [kind |-> "bool", ok |-> b, items |-> <<>>, id |-> 0]
RetList(s) == [kind |-> "list", ok |-> TRUE, items |-> s, id |-> 0]
RetId(i) == [kind |-> "id", ok |-> TRUE, items |-> <<>>, id |-> i]
RetDoc(source) == [kind |-> "doc", ok |-> TRUE, items |-> <<source>>, id |-> 0]

Out(ix, cs, rw, rt) == [indices |-> ix, calls |-> cs, raw |-> rw, ret |-> rt]

\* an HTTP response: form "message" and "full" are the handlers' normal bodies,
\* "fallback" the reduced body a handler returns when EsClient returned None,
\* "error" an HTTPException
Resp(status, form, movies, count) ==
    [status |-> status, form |-> form, movies |-> movies, count |-> count]

NoId == 0

Req(op) == [op |-> op, term |-> <<>>, size |-> 0, from |-> 0, field |-> "",
            fuzziness |-> "", fault |-> 0, shape |-> "", now |-> 0,
            docs |-> <<>>, file |-> "", id |-> NoId]

----------------------------------------------------------------------------
(* EsClient: index lifecycle.  fault = n says the n-th store request of    *)
(* the call fails in transport (the request does not reach the store and   *)
(* the client library raises); fault = 0 says none does.                   *)

\* a create_index that does not look whether the index exists
EsClient_create_index_Unchecked(ix, index_name, mapping, fault) ==
    IF fault = 1
    THEN Out(ix, <<"indices.create">>, NoRaw, RetBool(FALSE))
    ELSE Out([ix EXCEPT ![index_name] =
                  [exists |-> TRUE,
                   mapping |-> IF mapping # {} THEN mapping ELSE NoMapping,
                   docs |-> <<>>]],
             <<"indices.create">>, NoRaw, RetBool(TRUE))

EsClient_create_index(ix, index_name, mapping, fault) ==
    IF fault = 1
    THEN Out(ix, <<"indices.exists">>, NoRaw, RetBool(FALSE))
    ELSE IF IndexExists(ix, index_name)
    THEN Out(ix, <<"indices.exists">>, NoRaw, RetBool(TRUE))
    ELSE IF fault = 2
    THEN Out(ix, <<"indices.exists", "indices.create">>, NoRaw, RetBool(FALSE))
    ELSE Out([ix EXCEPT ![index_name] =
                  [exists |-> TRUE,
                   mapping |-> IF mapping # {} THEN mapping ELSE NoMapping,
                   docs |-> <<>>]],
             <<"indices.exists", "indices.create">>, NoRaw, RetBool(TRUE))

\* a delete_index that does not look whether the index exists: the store
\* answers the delete of an absent index with an error
EsClient_delete_index_Unchecked(ix, index_name, fault) ==
    IF fault = 1 \/ ~IndexExists(ix, index_name)
    THEN Out(ix, <<"indices.delete">>, NoRaw, RetBool(FALSE))
    ELSE Out([ix EXCEPT ![index_name] = NoIndex],
             <<"indices.delete">>, NoRaw, RetBool(TRUE))

EsClient_delete_index(ix, index_name, fault) ==
    IF fault = 1
    THEN Out(ix, <<"indices.exists">>, NoRaw, RetBool(FALSE))
    ELSE IF ~IndexExists(ix, index_name)
    THEN Out(ix, <<"indices.exists">>, NoRaw, RetBool(TRUE))
    ELSE IF fault = 2
    THEN Out(ix, <<"indices.exists", "indices.delete">>, NoRaw, RetBool(FALSE))
    ELSE Out([ix EXCEPT ![index_name] = NoIndex],
             <<"indices.exists", "indices.delete">>, NoRaw, RetBool(TRUE))

\* create_index step by step, for callers that run it at the same time.
\* A caller is at "idle", at "checked" (indices.exists answered False and
\* indices.create is not sent yet) or at "done" with its return value ok;
\* faulted says a request of the call failed in transport.
NotCalling == [pc |-> "idle", ok |-> FALSE, faulted |-> FALSE]

\* if self.client.indices.exists(index=index_name): ... return True
EsClient_create_index_exists(ix, index_name, fault) ==
    IF fault = 1
    THEN [pc |-> "done", ok |-> FALSE, faulted |-> TRUE]
    ELSE IF IndexExists(ix, index_name)
    THEN [pc |-> "done", ok |-> TRUE, faulted |-> FALSE]
    ELSE [pc |-> "checked", ok |-> FALSE, faulted |-> FALSE]

\* self.client.indices.create(index=index_name, body=body); return True.
\* The store answers the create of an index that exists with
\* resource_already_exists_exception, which the client library raises
EsClient_create_index_create(ix, index_name, mapping, fault) ==
    IF fault = 1
    THEN [indices |-> ix, caller |-> [pc |-> "done", ok |-> FALSE, faulted |-> TRUE]]
    ELSE IF IndexExists(ix, index_name)
    THEN [indices |-> ix, caller |-> [pc |-> "done", ok |-> FALSE, faulted |-> FALSE]]
    ELSE [indices |-> EsClient_create_index(ix, index_name, mapping, 0).indices,
          caller |-> [pc |-> "done", ok |-> TRUE, faulted |-> FALSE]]

----------------------------------------------------------------------------
(* EsClient: ingestion *)

\* a stamping that does not look whether the document has a timestamp
Stamp_Always(document, now) ==
    [document EXCEPT !.hasTs = TRUE, !.timestamp = now]

\* "Add timestamp if not present"
Stamp(document, now) ==
    IF ~document.hasTs
    THEN [document EXCEPT !.hasTs = TRUE, !.timestamp = now]
    ELSE document

StampAll(documents, now) == [i \in 1..Len(documents) |-> Stamp(documents[i], now)]

\* the store's answer to client.index: a malformed document is rejected (the
\* library raises), a document with a known id replaces the one stored under it
StoreIndexOne(index, doc, doc_id) ==
    IF doc_id # NoId /\ \E i \in 1..Len(index.docs) : index.docs[i].id = doc_id
    THEN [index EXCEPT !.docs =
              [i \in 1..Len(index.docs) |->
                  IF index.docs[i].id = doc_id
                  THEN [id |-> doc_id, source |-> doc]
                  ELSE index.docs[i]]]
    ELSE [exists |-> TRUE,
          mapping |-> index.mapping,
          docs |-> Append(index.docs,
                          [id |-> IF doc_id # NoId THEN doc_id ELSE NextId(index.docs),
                           source |-> doc])]

EsClient_index_document(ix, index_name, document, doc_id, now, fault) ==
    LET stamped == Stamp(document, now) IN
    IF fault = 1 \/ stamped.malformed
    THEN Out(ix, <<"index">>, NoRaw, RetNone)
    ELSE Out([ix EXCEPT ![index_name] = StoreIndexOne(ix[index_name], stamped, doc_id)],
             <<"index">>, NoRaw,
             RetId(IF doc_id # NoId THEN doc_id ELSE NextId(ix[index_name].docs)))

\* helpers.bulk sends the actions in one request; the store writes the
\* documents it accepts, and the helper raises when it rejected any
EsClient_bulk_index_documents(ix, index_name, documents, now, fault) ==
    LET actions == StampAll(documents, now) IN
    IF Len(actions) = 0
    THEN Out(ix, <<>>, NoRaw, RetBool(TRUE))
    ELSE IF fault = 1
    THEN Out(ix, <<"bulk">>, NoRaw, RetBool(FALSE))
    ELSE Out([ix EXCEPT ![index_name] = StoreWriteAll(ix[index_name], Accepted(actions))],
             <<"bulk">>, NoRaw, RetBool(Rejected(actions) = 0))

----------------------------------------------------------------------------
(* EsClient: documents by id.  The store answers a get, update or delete   *)
(* of an id it does not hold, or of an absent index, with NotFoundError,   *)
(* which the client library raises.                                        *)

Holds(index, doc_id) ==
    index.exists /\ \E i \in 1..Len(index.docs) : index.docs[i].id = doc_id

Stored(index, doc_id) ==
    index.docs[CHOOSE i \in 1..Len(index.docs) : index.docs[i].id = doc_id].source

EsClient_get_document(ix, index_name, doc_id, fault) ==
    IF fault = 1 \/ ~Holds(ix[index_name], doc_id)
    THEN Out(ix, <<"get">>, NoRaw, RetNone)
    ELSE Out(ix, <<"get">>, NoRaw, RetDoc(Stored(ix[index_name], doc_id)))

\* body = {"doc": updates}: the fields of updates replace the document's
Merge(source, updates) ==
    [f \in DOMAIN source |-> IF f \in DOMAIN updates THEN updates[f] ELSE source[f]]

EsClient_update_document(ix, index_name, doc_id, updates, fault) ==
    IF fault = 1 \/ ~Holds(ix[index_name], doc_id)
    THEN Out(ix, <<"update">>, NoRaw, RetBool(FALSE))
    ELSE Out([ix EXCEPT ![index_name].docs =
                  [i \in 1..Len(@) |->
                      IF @[i].id = doc_id
                      THEN [id |-> doc_id, source |-> Merge(@[i].source, updates)]
                      ELSE @[i]]],
             <<"update">>, NoRaw, RetBool(TRUE))

RECURSIVE Without(_, _)
Without(docs, doc_id) ==
    IF Len(docs) = 0 THEN <<>>
    ELSE IF docs[1].id = doc_id THEN Without(Tail(docs), doc_id)
    ELSE <<docs[1]>> \o Without(Tail(docs), doc_id)

EsClient_delete_document(ix, index_name, doc_id, fault) ==
    IF fault = 1 \/ ~Holds(ix[index_name], doc_id)
    THEN Out(ix, <<"delete">>, NoRaw, RetBool(FALSE))
    ELSE Out([ix EXCEPT ![index_name].docs = Without(@, doc_id)],
             <<"delete">>, NoRaw, RetBool(TRUE))

----------------------------------------------------------------------------
(* HTTP handlers: index lifecycle and loading *)

\* an HTTPException raised inside a handler's try block is caught by its
\* "except Exception" and raised again with status 500
create_index(success) ==
    IF success
    THEN Resp(200, "message", <<>>, 0)
    ELSE Resp(500, "error", <<>>, 0)

delete_index(success) ==
    IF success
    THEN Resp(200, "message", <<>>, 0)
    ELSE Resp(500, "error", <<>>, 0)

\* file: "missing" (exists() is false), "vanished" (open() raises
\* FileNotFoundError), "invalid" (not JSON), "ok"
\* the except clauses of load_movie_data, in their order: the status of
\* the HTTPException raised for an exception raised in the try block.  An
\* HTTPException is neither of the first two and is caught by the last
load_movie_data_except(exception) ==
    CASE exception = "FileNotFoundError" -> 404
      [] exception = "JSONDecodeError" -> 400
      [] OTHER -> 500

load_movie_data(ix, file, movies, now, fault) ==
    IF file = "missing"
    THEN [out |-> Out(ix, <<>>, NoRaw, RetNone),
          resp |-> Resp(load_movie_data_except("HTTPException"), "error", <<>>, 0)]
    ELSE IF file = "vanished"
    THEN [out |-> Out(ix, <<>>, NoRaw, RetNone),
          resp |-> Resp(load_movie_data_except("FileNotFoundError"), "error", <<>>, 0)]
    ELSE IF file = "invalid"
    THEN [out |-> Out(ix, <<>>, NoRaw, RetNone),
          resp |-> Resp(load_movie_data_except("JSONDecodeError"), "error", <<>>, 0)]
    ELSE LET out == EsClient_bulk_index_documents(ix, MOVIE_INDEX, movies, now, fault) IN
         [out |-> out,
          resp |-> IF out.ret.ok
                   THEN Resp(200, "message", <<>>, Len(movies))
                   ELSE Resp(load_movie_data_except("HTTPException"), "error", <<>>, 0)]


----------------------------------------------------------------------------
(* Structured queries, as the query builders write them.  "name^2" is the  *)
(* field name with boost 2.                                                *)

FB(f, b) == [field |-> f, boost |-> b]

Query(kind) == [kind |-> kind, text |-> <<>>, fields |-> <<>>, type |-> "best_fields",
                fuzziness |-> "", boost |-> 1, should |-> <<>>, field |-> "",
                pattern |-> <<>>, year |-> 0]

MultiMatch(text, fields, type, fuzziness, boost) ==
    [Query("multi_match") EXCEPT !.text = text, !.fields = fields, !.type = type,
                                 !.fuzziness = fuzziness, !.boost = boost]

----------------------------------------------------------------------------
(* The store's evaluation of a query on a document.  Relevance is         *)
(* abstracted to the boosts: a clause that matches a field scores the      *)
(* field's boost times the clause's.                                       *)

FieldText(doc, f) ==
    CASE f = "name" -> doc.name
      [] f = "genre" -> doc.genre
      [] f = "summary" -> doc.summary
      [] OTHER -> <<>>

TextFields == {"name", "genre", "summary"}

\* edits a fuzzy clause tolerates for one query token
Edits(fuzziness, token) ==
    CASE fuzziness = "0" -> 0
      [] fuzziness = "1" -> 1
      [] fuzziness = "2" -> 2
      [] fuzziness = "AUTO" -> IF Len(token) <= 2 THEN 0 ELSE IF Len(token) <= 5 THEN 1 ELSE 2
      [] OTHER -> 0

\* prefix_length = 1: the first character must match exactly
FuzzyEq(q, t, fuzziness) ==
    \/ q = t
    \/ /\ Edits(fuzziness, q) > 0
       /\ Len(q) > 0 /\ Len(t) > 0 /\ q[1] = t[1]
       /\ EditDistance(q, t) <= Edits(fuzziness, q)

MatchTokens(qs, ts, fuzziness) ==
    \E i \in 1..Len(qs) : \E j \in 1..Len(ts) : FuzzyEq(qs[i], ts[j], fuzziness)

MatchPhrase(qs, ts) ==
    /\ Len(qs) > 0
    /\ \E o \in 0..(Len(ts) - Len(qs)) : \A i \in 1..Len(qs) : ts[o + i] = qs[i]

MatchPhrasePrefix(qs, ts) ==
    /\ Len(qs) > 0
    /\ \E o \in 0..(Len(ts) - Len(qs)) :
          /\ \A i \in 1..(Len(qs) - 1) : ts[o + i] = qs[i]
          /\ IsPrefix(qs[Len(qs)], ts[o + Len(qs)])

MatchField(q, doc, f) ==
    LET qs == Analyze(q.text)
        ts == Analyze(FieldText(doc, f))
    IN  CASE q.type = "phrase" -> MatchPhrase(qs, ts)
          [] q.type = "phrase_prefix" -> MatchPhrasePrefix(qs, ts)
          [] OTHER -> MatchTokens(qs, ts, q.fuzziness)

MaxOf(S) == IF S = {} THEN 0 ELSE CHOOSE m \in S : \A x \in S : x <= m

\* a keyword value that is the first word of the text only
Joined_FirstWord(text) ==
    IF Len(text) = 0 THEN <<>> ELSE text[1]

\* the value of <field>.keyword: the whole text, words joined by a blank
RECURSIVE Joined(_)
Joined(text) ==
    IF Len(text) = 0 THEN <<>>
    ELSE IF Len(text) = 1 THEN text[1]
    ELSE text[1] \o <<" ">> \o Joined(Tail(text))

\* <field>.keyword exists where the mapping provisions it; an index without a
\* mapping maps every string field dynamically as text with a keyword sub-field
HasKeyword(mapping, f) ==
    IF mapping = NoMapping
    THEN f \in TextFields
    ELSE \E m \in mapping : m.field = f /\ m.type = "text" /\ m.keyword

RECURSIVE WildcardMatch(_, _)
WildcardMatch(p, v) ==
    IF Len(p) = 0 THEN Len(v) = 0
    ELSE IF p[1] = "*"
    THEN WildcardMatch(Tail(p), v) \/ (Len(v) > 0 /\ WildcardMatch(p, Tail(v)))
    ELSE /\ Len(v) > 0
         /\ (p[1] = "?" \/ Lower(p[1]) = Lower(v[1]))
         /\ WildcardMatch(Tail(p), Tail(v))

\* regular expressions over characters, "." for any character and "*" after
\* a character or "." for its repetition; the whole value must match
RECURSIVE RegexpMatch(_, _)
RegexpMatch(p, v) ==
    IF Len(p) = 0 THEN Len(v) = 0
    ELSE IF Len(p) >= 2 /\ p[2] = "*"
    THEN \/ RegexpMatch(Tail(Tail(p)), v)
         \/ /\ Len(v) > 0
            /\ (p[1] = "." \/ Lower(p[1]) = Lower(v[1]))
            /\ RegexpMatch(p, Tail(v))
    ELSE /\ Len(v) > 0
         /\ (p[1] = "." \/ Lower(p[1]) = Lower(v[1]))
         /\ RegexpMatch(Tail(p), Tail(v))

RECURSIVE SumScores(_, _, _)
RECURSIVE Score(_, _, _)
Score(q, mapping, doc) ==
    CASE q.kind = "multi_match" ->
            MaxOf({ q.fields[i].boost * q.boost : i \in
                      { j \in 1..Len(q.fields) : MatchField(q, doc, q.fields[j].field) } })
      [] q.kind = "query_string" ->
            IF \E f \in TextFields : MatchField(q, doc, f) THEN 1 ELSE 0
      [] q.kind = "fuzzy" ->       \* on "_all", a field no document has
            IF MatchField(q, doc, q.field) THEN 1 ELSE 0
      [] q.kind = "bool" -> SumScores(q.should, mapping, doc)
      [] q.kind = "wildcard" ->
            IF /\ HasKeyword(mapping, q.field)
               /\ WildcardMatch(q.pattern, Joined(FieldText(doc, q.field)))
            THEN 1 ELSE 0
      [] q.kind = "regexp" ->
            IF /\ HasKeyword(mapping, q.field)
               /\ RegexpMatch(q.pattern, Joined(FieldText(doc, q.field)))
            THEN 1 ELSE 0
      [] q.kind = "match_all" -> 1
      [] q.kind = "term" -> IF doc.oscar = q.year THEN 1 ELSE 0
      [] OTHER -> 0
SumScores(clauses, mapping, doc) ==
    IF Len(clauses) = 0 THEN 0
    ELSE Score(clauses[1], mapping, doc) + SumScores(Tail(clauses), mapping, doc)

\* a document is a hit when its score is positive (minimum_should_match = 1)
Hit(q, mapping, d) ==
    [id |-> d.id, score |-> Score(q, mapping, d.source), source |-> d.source]

RECURSIVE Matching(_, _, _)
Matching(q, mapping, docs) ==
    IF Len(docs) = 0 THEN <<>>
    ELSE LET h == Hit(q, mapping, docs[1]) IN
         IF h.score > 0
         THEN <<h>> \o Matching(q, mapping, Tail(docs))
         ELSE Matching(q, mapping, Tail(docs))

\* descending score, documents of equal score in index order
RECURSIVE InsertHit(_, _)
InsertHit(h, sorted) ==
    IF Len(sorted) = 0 THEN <<h>>
    ELSE IF h.score > sorted[1].score THEN <<h>> \o sorted
    ELSE <<sorted[1]>> \o InsertHit(h, Tail(sorted))

RECURSIVE Ranked(_)
Ranked(hits) ==
    IF Len(hits) = 0 THEN <<>>
    ELSE InsertHit(hits[Len(hits)], Ranked(SubSeq(hits, 1, Len(hits) - 1)))

Page(s, size, from) == SubSeq(s, from + 1, Min(from + size, Len(s)))


----------------------------------------------------------------------------
(* The store's answers to client.search.  shape is the form of the raw     *)
(* response: "full", or one with an expected key missing.                  *)

StoreRaises(index, size, from, fault) ==
    fault = 1 \/ ~index.exists \/ size < 0 \/ from < 0

StoreSearch(index, q, size, from, shape) ==
    LET matching == Ranked(Matching(q, index.mapping, index.docs)) IN
    [NoRaw EXCEPT !.ok = TRUE,
                  !.hasHits = shape # "nohits",
                  !.hits = IF shape = "nohits" THEN <<>> ELSE Page(matching, size, from),
                  !.hasTotal = shape \notin {"nohits", "nototal"},
                  !.total = Len(matching)]

\* the tokens of a field over the index, in order of first occurrence
RECURSIVE Distinct(_)
Distinct(s) ==
    IF Len(s) = 0 THEN <<>>
    ELSE LET rest == Distinct(SubSeq(s, 1, Len(s) - 1)) IN
         IF \E i \in 1..Len(rest) : rest[i] = s[Len(s)]
         THEN rest ELSE Append(rest, s[Len(s)])

RECURSIVE FieldTokens(_, _)
FieldTokens(docs, f) ==
    IF Len(docs) = 0 THEN <<>>
    ELSE Analyze(FieldText(docs[1].source, f)) \o FieldTokens(Tail(docs), f)

Vocabulary(index, f) == Distinct(FieldTokens(index.docs, f))

RECURSIVE Select(_, _, _)
Select(s, q, edits) ==
    IF Len(s) = 0 THEN <<>>
    ELSE IF s[1] # q /\ s[1][1] = q[1] /\ EditDistance(q, s[1]) <= edits
    THEN <<s[1]>> \o Select(Tail(s), q, edits)
    ELSE Select(Tail(s), q, edits)

\* the phrase suggester with suggest_mode "missing": corrections of the first
\* token the field's vocabulary does not have; none when every token is known
Options(index, text, f, size) ==
    LET qs == Analyze(text)
        vocab == Vocabulary(index, f)
        missing == { i \in 1..Len(qs) : \A j \in 1..Len(vocab) : vocab[j] # qs[i] }
    IN  IF missing = {} THEN <<>>
        ELSE LET k == CHOOSE i \in missing : \A j \in missing : i <= j
                 cands == Select(vocab, qs[k], 2)
             IN  Page([c \in 1..Len(cands) |-> [text |-> [qs EXCEPT ![k] = cands[c]]]],
                      size, 0)

StoreSuggest(index, text, f, size, shape) ==
    [NoRaw EXCEPT !.ok = TRUE,
                  !.hasSuggest = shape # "nosuggest",
                  !.groups = IF shape = "full"
                             THEN << [options |-> Options(index, text, f, size)] >>
                             ELSE <<>>]

RECURSIVE Genres(_)
Genres(docs) ==
    IF Len(docs) = 0 THEN <<>>
    ELSE <<[key |-> Joined(docs[1].source.genre)]>> \o Genres(Tail(docs))

\* the buckets of the terms aggregation on genre.keyword
StoreGenres(index, shape) ==
    [NoRaw EXCEPT !.ok = TRUE,
                  !.hasHits = TRUE,
                  !.hasAggs = shape # "noaggs",
                  !.buckets = IF shape = "noaggs" \/ ~HasKeyword(index.mapping, "genre")
                              THEN <<>>
                              ELSE Distinct(Genres(index.docs))]

----------------------------------------------------------------------------
(* EsClient: search *)

RetResponse == [kind |-> "response", ok |-> TRUE, items |-> <<>>, id |-> 0]

\* a search that leaves the index it searched created when it was absent
EsClient_search_Creating(ix, index_name, query, size, from_, fault, shape) ==
    IF StoreRaises(ix[index_name], size, from_, fault)
    THEN Out([ix EXCEPT ![index_name].exists = TRUE], <<"search">>, NoRaw, RetNone)
    ELSE Out(ix, <<"search">>, StoreSearch(ix[index_name], query, size, from_, shape),
             RetResponse)

\* a search that sends its request again when the first one raised
EsClient_search_Retrying(ix, index_name, query, size, from_, fault, shape) ==
    IF StoreRaises(ix[index_name], size, from_, 0)
    THEN Out(ix, <<"search", "search">>, NoRaw, RetNone)
    ELSE Out(ix, IF fault = 1 THEN <<"search", "search">> ELSE <<"search">>,
             StoreSearch(ix[index_name], query, size, from_, shape), RetResponse)

EsClient_search(ix, index_name, query, size, from_, fault, shape) ==
    IF StoreRaises(ix[index_name], size, from_, fault)
    THEN Out(ix, <<"search">>, NoRaw, RetNone)
    ELSE Out(ix, <<"search">>, StoreSearch(ix[index_name], query, size, from_, shape),
             RetResponse)

\* a normalizer that returns the hits in index order, not in the store's
Sources_ById(hits) ==
    LET pos(i) == Cardinality({ j \in 1..Len(hits) : hits[j].id <= hits[i].id }) IN
    [k \in 1..Len(hits) |-> hits[CHOOSE i \in 1..Len(hits) : pos(i) = k].source]

\* [hit["_source"] for hit in response["hits"]["hits"]]
Sources(hits) == [i \in 1..Len(hits) |-> hits[i].source]

\* the source with the hit's _score and _id attached
Scored(hits) ==
    [i \in 1..Len(hits) |->
        [source |-> hits[i].source, score |-> hits[i].score, id |-> hits[i].id]]

\* a response without "hits" raises KeyError, which the method catches
Unscored(out) ==
    IF out.ret.kind = "response" /\ out.raw.hasHits
    THEN [out EXCEPT !.ret = RetList(Sources(out.raw.hits))]
    ELSE [out EXCEPT !.ret = RetNone]

WithScores(out) ==
    IF out.ret.kind = "response" /\ out.raw.hasHits
    THEN [out EXCEPT !.ret = RetList(Scored(out.raw.hits))]
    ELSE [out EXCEPT !.ret = RetNone]

SimpleQuery(search_term, fields) ==
    IF Len(fields) > 0
    THEN MultiMatch(search_term, fields, "best_fields", "", 1)
    ELSE [Query("query_string") EXCEPT !.text = search_term]

EsClient_simple_search(ix, index_name, search_term, fields, fault, shape) ==
    Unscored(EsClient_search(ix, index_name, SimpleQuery(search_term, fields),
                             DefaultSize, 0, fault, shape))

FuzzyQuery(search_term, fields, fuzziness) ==
    IF Len(fields) > 0
    THEN MultiMatch(search_term, fields, "best_fields", fuzziness, 1)
    ELSE [Query("fuzzy") EXCEPT !.text = search_term, !.field = "_all",
                                !.fuzziness = fuzziness]

EsClient_fuzzy_search(ix, index_name, search_term, fields, fuzziness, size, fault, shape) ==
    WithScores(EsClient_search(ix, index_name, FuzzyQuery(search_term, fields, fuzziness),
                               size, 0, fault, shape))

\* an advanced query that lacks the fuzzy alternative
AdvancedFuzzyQuery_NoFuzzy(search_term, fields, fuzziness, boost_exact) ==
    LET fs == IF Len(fields) = 0 THEN <<FB("_all", 1)>> ELSE fields IN
    [Query("bool") EXCEPT !.should =
        << MultiMatch(search_term, fs, "phrase", "", boost_exact),
           MultiMatch(search_term, fs, "phrase_prefix", "", 1) >>]

AdvancedFuzzyQuery(search_term, fields, fuzziness, boost_exact) ==
    LET fs == IF Len(fields) = 0 THEN <<FB("_all", 1)>> ELSE fields IN
    [Query("bool") EXCEPT !.should =
        << MultiMatch(search_term, fs, "phrase", "", boost_exact),
           MultiMatch(search_term, fs, "best_fields", fuzziness, 1),
           MultiMatch(search_term, fs, "phrase_prefix", "", 1) >>]

EsClient_advanced_fuzzy_search(ix, index_name, search_term, fields, fuzziness, boost_exact, size, fault, shape) ==
    WithScores(EsClient_search(ix, index_name,
                               AdvancedFuzzyQuery(search_term, fields, fuzziness, boost_exact),
                               size, 0, fault, shape))

WildcardQuery(pattern, field) ==
    [Query("wildcard") EXCEPT !.field = field, !.pattern = pattern]

EsClient_wildcard_search(ix, index_name, pattern, field, size, fault, shape) ==
    Unscored(EsClient_search(ix, index_name, WildcardQuery(pattern, field),
                             size, 0, fault, shape))

RegexpQuery(pattern, field) ==
    [Query("regexp") EXCEPT !.field = field, !.pattern = pattern]

EsClient_regexp_search(ix, index_name, pattern, field, size, fault, shape) ==
    Unscored(EsClient_search(ix, index_name, RegexpQuery(pattern, field),
                             size, 0, fault, shape))

\* response["suggest"]["simple_phrase"][0]["options"]: an empty group list
\* raises IndexError, which the method catches
EsClient_suggest_search(ix, index_name, text, field, size, fault, shape) ==
    IF fault = 1 \/ ~ix[index_name].exists
    THEN Out(ix, <<"search">>, NoRaw, RetNone)
    ELSE LET response == StoreSuggest(ix[index_name], text, field, size, shape) IN
         IF response.hasSuggest
         THEN IF Len(response.groups) = 0
              THEN Out(ix, <<"search">>, response, RetNone)
              ELSE Out(ix, <<"search">>, response,
                       RetList([i \in 1..Len(response.groups[1].options) |->
                                    response.groups[1].options[i].text]))
         ELSE Out(ix, <<"search">>, response, RetList(<<>>))


----------------------------------------------------------------------------
(* HTTP handlers: search and browse *)

SearchFields == <<FB("name", 2), FB("genre", 1), FB("directors", 1), FB("stars", 1),
                  FB("summary", 1)>>

AdvancedFields == <<FB("name", 3), FB("genre", 2), FB("directors", 2), FB("stars", 1),
                    FB("summary", 1)>>

\* results[:size]
SliceTo(s, n) ==
    IF n >= 0
    THEN SubSeq(s, 1, Min(n, Len(s)))
    ELSE SubSeq(s, 1, Max(Len(s) + n, 0))

search_movies(results, size) ==
    IF results.kind = "none"
    THEN Resp(200, "fallback", <<>>, 0)
    ELSE Resp(200, "full", SliceTo(results.items, size), Len(results.items))

\* fuzzy_search_movies, advanced_fuzzy_search_movies, wildcard_search_movies
\* and get_suggestions shape their results the same way
ListResponse(results) ==
    IF results.kind = "none"
    THEN Resp(200, "fallback", <<>>, 0)
    ELSE Resp(200, "full", results.items, Len(results.items))

get_all_movies(out) ==
    IF out.ret.kind = "none"
    THEN Resp(200, "fallback", <<>>, 0)
    ELSE IF ~out.raw.hasHits
    THEN Resp(500, "error", <<>>, 0)
    ELSE LET movies == Sources(out.raw.hits) IN
         Resp(200, "full", movies, IF out.raw.hasTotal THEN out.raw.total ELSE Len(movies))

get_movies_by_year(out) ==
    IF out.ret.kind = "none"
    THEN Resp(200, "fallback", <<>>, 0)
    ELSE IF ~out.raw.hasHits
    THEN Resp(500, "error", <<>>, 0)
    ELSE Resp(200, "full", Sources(out.raw.hits), Len(out.raw.hits))

\* the handler queries the store itself, so what the client library raises
\* reaches its "except Exception"
get_genres(ix, fault, shape) ==
    IF fault = 1 \/ ~ix[MOVIE_INDEX].exists
    THEN [out |-> Out(ix, <<"search">>, NoRaw, RetNone),
          resp |-> Resp(500, "error", <<>>, 0)]
    ELSE LET response == StoreGenres(ix[MOVIE_INDEX], shape)
             genres == [i \in 1..Len(response.buckets) |-> response.buckets[i].key]
         IN  [out |-> Out(ix, <<"search">>, response, RetNone),
              resp |-> IF response.hasAggs
                       THEN Resp(200, "full", genres, Len(genres))
                       ELSE Resp(200, "full", <<>>, 0)]

\* ping() answers False when the store cannot be reached
health_check(fault) ==
    IF fault = 1
    THEN Resp(200, "unhealthy", <<>>, 0)
    ELSE Resp(200, "healthy", <<>>, 0)

----------------------------------------------------------------------------
(* Inputs *)

Sizes == (-1..MaxSize) \cup {DefaultSize}
Limits == (-1..MaxSize + 1) \cup {DefaultLimit}
Offsets == -1..MaxOffset
Faults == 0..1
Fuzziness == {"AUTO", "0"}
Patterns == { <<"w","a","r","*">>, <<"*","r">>, <<"W","a","?">> }
RegexpPatterns == { <<"w","a",".">>, <<"w",".","*">> }
PatternFields == {"name", "summary"}
Years == {2011, 1999}
SearchShapes == {"full", "nohits"}
ListShapes == {"full", "nohits", "nototal"}
SuggestShapes == {"full", "nosuggest", "emptygroup"}
GenreShapes == {"full", "noaggs"}
Files == {"ok", "missing", "vanished", "invalid"}
SuggestTexts == { << <<"w","a","r","s">> >>, << <<"w","a","r">> >> }

Callers == 1..MaxCallers
\* the ids callers ask for: the id of the newest document and one the
\* store does not hold
DocIds(docs) ==
    {NextId(docs)} \cup (IF Len(docs) = 0 THEN {} ELSE {docs[Len(docs)].id})

Updates == { [genre |-> Drama] }

RECURSIVE SeqsUpTo(_, _)
SeqsUpTo(S, n) ==
    IF n = 0 THEN {<<>>}
    ELSE LET shorter == SeqsUpTo(S, n - 1) IN
         shorter \cup { Append(s, x) : s \in shorter, x \in S }

\* a response shape only matters when the request reaches the store
Reaches(fault, shape) == fault = 0 \/ shape = "full"

----------------------------------------------------------------------------
(* Actions: one per call *)

NoResp == Resp(0, "none", <<>>, 0)

Idle == req.op = "idle"

Init ==
    /\ indices = [n \in {MOVIE_INDEX} |-> NoIndex]
    /\ req = Req("idle")
    /\ calls = <<>>
    /\ raw = NoRaw
    /\ ret = RetNone
    /\ resp = NoResp
    /\ hist = <<>>
    /\ callers = [p \in Callers |-> NotCalling]

Leave(out) ==
    /\ indices' = out.indices
    /\ calls' = out.calls
    /\ raw' = out.raw
    /\ ret' = out.ret
    /\ UNCHANGED <<hist, callers>>

PostCreateIndex ==
    /\ Idle
    /\ \E fault \in 0..2 :
        LET out == EsClient_create_index(indices, MOVIE_INDEX, create_movie_mapping, fault) IN
        /\ req' = [Req("create_index") EXCEPT !.fault = fault]
        /\ Leave(out)
        /\ resp' = create_index(out.ret.ok)

DeleteIndex ==
    /\ Idle
    /\ \E fault \in 0..2 :
        LET out == EsClient_delete_index(indices, MOVIE_INDEX, fault) IN
        /\ req' = [Req("delete_index") EXCEPT !.fault = fault]
        /\ Leave(out)
        /\ resp' = delete_index(out.ret.ok)

PostLoadData ==
    /\ Idle
    /\ \E file \in Files, movies \in SeqsUpTo(InputDocs, MaxBulk), now \in Times, fault \in Faults :
        /\ Len(indices[MOVIE_INDEX].docs) + Len(movies) <= MaxDocs
        /\ file = "ok" \/ (movies = <<>> /\ fault = 0 /\ now = 1)
        /\ LET r == load_movie_data(indices, file, movies, now, fault) IN
           /\ req' = [Req("load_movie_data") EXCEPT !.file = file, !.docs = movies,
                                                    !.now = now, !.fault = fault]
           /\ Leave(r.out)
           /\ resp' = r.resp

IndexDocument ==
    /\ Idle
    /\ \E document \in InputDocs, doc_id \in {NoId, 1}, now \in Times, fault \in Faults :
        /\ Len(indices[MOVIE_INDEX].docs) < MaxDocs
        /\ LET out == EsClient_index_document(indices, MOVIE_INDEX, document, doc_id,
                                              now, fault) IN
           /\ req' = [Req("index_document") EXCEPT !.docs = <<document>>, !.id = doc_id,
                                                   !.now = now, !.fault = fault]
           /\ Leave(out)
           /\ resp' = NoResp

GetSearch ==
    /\ Idle
    /\ \E query \in Terms, size \in Sizes, fault \in Faults, shape \in SearchShapes :
        /\ Reaches(fault, shape)
        /\ LET out == EsClient_simple_search(indices, MOVIE_INDEX, query, SearchFields,
                                             fault, shape) IN
           /\ req' = [Req("search") EXCEPT !.term = query, !.size = size,
                                           !.fault = fault, !.shape = shape]
           /\ Leave(out)
           /\ resp' = search_movies(out.ret, size)

GetFuzzySearch ==
    /\ Idle
    /\ \E query \in Terms, size \in Sizes, fuzziness \in Fuzziness, fault \in Faults,
       shape \in SearchShapes :
        /\ Reaches(fault, shape)
        /\ LET out == EsClient_fuzzy_search(indices, MOVIE_INDEX, query, SearchFields,
                                            fuzziness, size, fault, shape) IN
           /\ req' = [Req("fuzzy_search") EXCEPT !.term = query, !.size = size,
                                                 !.fuzziness = fuzziness,
                                                 !.fault = fault, !.shape = shape]
           /\ Leave(out)
           /\ resp' = ListResponse(out.ret)

GetAdvancedFuzzySearch ==
    /\ Idle
    /\ \E query \in Terms, size \in Sizes, fuzziness \in Fuzziness, fault \in Faults,
       shape \in SearchShapes :
        /\ Reaches(fault, shape)
        /\ LET out == EsClient_advanced_fuzzy_search(indices, MOVIE_INDEX, query,
                          AdvancedFields, fuzziness, BoostExact, size, fault, shape) IN
           /\ req' = [Req("advanced_fuzzy_search") EXCEPT !.term = query, !.size = size,
                                                          !.fuzziness = fuzziness,
                                                          !.fault = fault, !.shape = shape]
           /\ Leave(out)
           /\ resp' = ListResponse(out.ret)

GetWildcardSearch ==
    /\ Idle
    /\ \E pattern \in Patterns, field \in PatternFields, size \in Sizes, fault \in Faults,
       shape \in SearchShapes :
        /\ Reaches(fault, shape)
        /\ LET out == EsClient_wildcard_search(indices, MOVIE_INDEX, pattern, field,
                                               size, fault, shape) IN
           /\ req' = [Req("wildcard_search") EXCEPT !.term = pattern, !.field = field,
                                                    !.size = size, !.fault = fault,
                                                    !.shape = shape]
           /\ Leave(out)
           /\ resp' = ListResponse(out.ret)

RegexpSearch ==
    /\ Idle
    /\ \E pattern \in RegexpPatterns, field \in PatternFields, size \in Sizes,
       fault \in Faults, shape \in SearchShapes :
        /\ Reaches(fault, shape)
        /\ LET out == EsClient_regexp_search(indices, MOVIE_INDEX, pattern, field,
                                             size, fault, shape) IN
           /\ req' = [Req("regexp_search") EXCEPT !.term = pattern, !.field = field,
                                                  !.size = size, !.fault = fault,
                                                  !.shape = shape]
           /\ Leave(out)
           /\ resp' = NoResp

GetSuggest ==
    /\ Idle
    /\ \E text \in SuggestTexts, fault \in Faults, shape \in SuggestShapes :
        /\ Reaches(fault, shape)
        /\ LET out == EsClient_suggest_search(indices, MOVIE_INDEX, text, "name",
                                              SuggestSize, fault, shape) IN
           /\ req' = [Req("suggest") EXCEPT !.term = text, !.field = "name",
                                            !.size = SuggestSize, !.fault = fault,
                                            !.shape = shape]
           /\ Leave(out)
           /\ resp' = ListResponse(out.ret)

GetMovies ==
    /\ Idle
    /\ \E limit \in Limits, offset \in Offsets, fault \in Faults, shape \in ListShapes :
        /\ Reaches(fault, shape)
        /\ LET out == EsClient_search(indices, MOVIE_INDEX, Query("match_all"),
                                      limit, offset, fault, shape) IN
           /\ req' = [Req("movies") EXCEPT !.size = limit, !.from = offset,
                                           !.fault = fault, !.shape = shape]
           /\ Leave(out)
           /\ resp' = get_all_movies(out)

GetMoviesByYear ==
    /\ Idle
    /\ \E year \in Years, fault \in Faults, shape \in SearchShapes :
        /\ Reaches(fault, shape)
        /\ LET out == EsClient_search(indices, MOVIE_INDEX,
                                      [Query("term") EXCEPT !.field = "oscar", !.year = year],
                                      DefaultSize, 0, fault, shape) IN
           /\ req' = [Req("movies_by_year") EXCEPT !.size = year,
                                                   !.fault = fault, !.shape = shape]
           /\ Leave(out)
           /\ resp' = get_movies_by_year(out)

GetGenres ==
    /\ Idle
    /\ \E fault \in Faults, shape \in GenreShapes :
        /\ Reaches(fault, shape)
        /\ LET r == get_genres(indices, fault, shape) IN
           /\ req' = [Req("genres") EXCEPT !.fault = fault, !.shape = shape]
           /\ Leave(r.out)
           /\ resp' = r.resp

GetHealth ==
    /\ Idle
    /\ \E fault \in Faults :
        /\ req' = [Req("health") EXCEPT !.fault = fault]
        /\ Leave(Out(indices, <<"ping">>, NoRaw, RetNone))
        /\ resp' = health_check(fault)

GetDocument ==
    /\ Idle
    /\ \E doc_id \in DocIds(indices[MOVIE_INDEX].docs), fault \in Faults :
        /\ req' = [Req("get_document") EXCEPT !.id = doc_id, !.fault = fault]
        /\ Leave(EsClient_get_document(indices, MOVIE_INDEX, doc_id, fault))
        /\ resp' = NoResp

UpdateDocument ==
    /\ Idle
    /\ \E doc_id \in DocIds(indices[MOVIE_INDEX].docs), updates \in Updates, fault \in Faults :
        /\ req' = [Req("update_document") EXCEPT !.id = doc_id, !.docs = <<updates>>,
                                                  !.fault = fault]
        /\ Leave(EsClient_update_document(indices, MOVIE_INDEX, doc_id, updates, fault))
        /\ resp' = NoResp

DeleteDocument ==
    /\ Idle
    /\ \E doc_id \in DocIds(indices[MOVIE_INDEX].docs), fault \in Faults :
        /\ req' = [Req("delete_document") EXCEPT !.id = doc_id, !.fault = fault]
        /\ Leave(EsClient_delete_document(indices, MOVIE_INDEX, doc_id, fault))
        /\ resp' = NoResp

\* the response is delivered and the service waits for the next request
Respond ==
    /\ ~Idle
    /\ req' = Req("idle")
    /\ calls' = <<>>
    /\ raw' = NoRaw
    /\ ret' = RetNone
    /\ resp' = NoResp
    /\ UNCHANGED <<indices, hist, callers>>

\* what hist remembers of a call
Summary ==
    [op |-> req.op, term |-> req.term, size |-> req.size, from |-> req.from,
     calls |-> calls, ret |-> ret, resp |-> resp]

\* as Respond, remembering the call when it is one of ops and forgetting
\* the earlier ones when it is not
Keep(ops) ==
    /\ ~Idle
    /\ req' = Req("idle")
    /\ calls' = <<>>
    /\ raw' = NoRaw
    /\ ret' = RetNone
    /\ resp' = NoResp
    /\ hist' = IF req.op \in ops THEN <<Summary>> ELSE <<>>
    /\ UNCHANGED <<indices, callers>>

\* one of the callers sends the existence check of its create_index
CreateIndexExists ==
    \E p \in Callers, fault \in Faults :
        /\ callers[p].pc = "idle"
        /\ callers' = [callers EXCEPT ![p] =
                           EsClient_create_index_exists(indices, MOVIE_INDEX, fault)]
        /\ UNCHANGED <<indices, req, calls, raw, ret, resp, hist>>

\* one of the callers that saw no index sends its create request
CreateIndexCreate ==
    \E p \in Callers, fault \in Faults :
        /\ callers[p].pc = "checked"
        /\ LET r == EsClient_create_index_create(indices, MOVIE_INDEX,
                                                 create_movie_mapping, fault) IN
           /\ indices' = r.indices
           /\ callers' = [callers EXCEPT ![p] = r.caller]
        /\ UNCHANGED <<req, calls, raw, ret, resp, hist>>

\* the call of one of the callers returns; the caller may call again
CreateIndexReturn ==
    \E p \in Callers :
        /\ callers[p].pc = "done"
        /\ callers' = [callers EXCEPT ![p] = NotCalling]
        /\ UNCHANGED <<indices, req, calls, raw, ret, resp, hist>>

Next ==
    \/ Respond
    \/ PostCreateIndex
    \/ DeleteIndex
    \/ PostLoadData
    \/ IndexDocument
    \/ GetSearch
    \/ GetFuzzySearch
    \/ GetAdvancedFuzzySearch
    \/ GetWildcardSearch
    \/ RegexpSearch
    \/ GetSuggest
    \/ GetMovies
    \/ GetMoviesByYear
    \/ GetGenres
    \/ GetHealth
    \/ GetDocument
    \/ UpdateDocument
    \/ DeleteDocument

Spec == Init /\ [][Next]_vars


\* index lifecycle calls, each delete remembered for the next call
KeepDeletes == Keep({"delete_index"})

NextTwice ==
    \/ KeepDeletes
    \/ PostCreateIndex
    \/ DeleteIndex
    \/ IndexDocument

SpecTwice == Init /\ [][NextTwice]_vars

\* callers of create_index running at the same time, on a store without
\* the index
NextRace ==
    \/ CreateIndexExists
    \/ CreateIndexCreate
    \/ CreateIndexReturn

SpecRace == Init /\ [][NextRace]_vars

\* paging through the movies, each page remembered for the next call
KeepPages == Keep({"movies"})

NextPages ==
    \/ KeepPages
    \/ IndexDocument
    \/ GetMovies

SpecPages == Init /\ [][NextPages]_vars

\* exact and advanced searches, each exact search remembered for the next call
KeepSearches == Keep({"search"})

NextBoth ==
    \/ KeepSearches
    \/ IndexDocument
    \/ GetSearch
    \/ GetAdvancedFuzzySearch

SpecBoth == Init /\ [][NextBoth]_vars


----------------------------------------------------------------------------
(* Properties *)

Movies == indices[MOVIE_INDEX]

Issued(request) == \E i \in 1..Len(calls) : calls[i] = request

\* C1, as claimed: whenever the index exists, create_index returns True,
\* leaves its mapping and documents as they are and sends no create request
C1_CreateExistingSucceeds ==
    [][ (Idle /\ Movies.exists /\ req'.op = "create_index")
          => /\ ret'.ok
             /\ indices' = indices
             /\ \A i \in 1..Len(calls') : calls'[i] # "indices.create" ]_vars

\* C1, amended: whenever the index exists, create_index leaves its mapping
\* and documents as they are and sends no create request; it returns True
\* (HTTP 200) when the existence check reaches the store and False (HTTP
\* 500) when that check fails in transport
C1_CreateExistingIsNoOp ==
    [][ (Idle /\ Movies.exists /\ req'.op = "create_index")
          => /\ ret'.ok = (req'.fault # 1)
             /\ resp'.status = IF req'.fault # 1 THEN 200 ELSE 500
             /\ indices' = indices
             /\ calls' = <<"indices.exists">> ]_vars

\* an index holding documents was created again, with success
C1_Witness ==
    /\ req.op = "create_index"
    /\ ret.ok
    /\ calls = <<"indices.exists">>
    /\ Len(Movies.docs) > 0


\* C2, as claimed: delete_index of an absent index returns success and
\* changes nothing; after a successful delete_index the index does not
\* exist; a delete_index right after a successful one succeeds and leaves
\* the state the first one left
C2_DeleteIdempotent ==
    [][ (Idle /\ req'.op = "delete_index")
          => /\ ~Movies.exists => (ret'.ok /\ indices' = indices)
             /\ ret'.ok => ~indices'[MOVIE_INDEX].exists
             /\ (hist # <<>> /\ hist[1].ret.ok) => (ret'.ok /\ indices' = indices) ]_vars

\* C2, amended: the same, with success only when the existence check
\* reaches the store: delete_index of an absent index changes nothing and
\* returns True (HTTP 200) unless that check fails in transport, when it
\* returns False (HTTP 500); after a successful delete_index the index does
\* not exist; a delete_index right after a successful one leaves the state
\* the first one left and succeeds unless its check fails in transport
C2_DeleteIdempotentWhenReached ==
    [][ (Idle /\ req'.op = "delete_index")
          => /\ ~Movies.exists
                  => /\ ret'.ok = (req'.fault # 1)
                     /\ resp'.status = IF req'.fault # 1 THEN 200 ELSE 500
                     /\ calls' = <<"indices.exists">>
                     /\ indices' = indices
             /\ ret'.ok => ~indices'[MOVIE_INDEX].exists
             /\ (hist # <<>> /\ hist[1].ret.ok)
                  => /\ ret'.ok = (req'.fault # 1)
                     /\ indices' = indices ]_vars

\* an index was deleted, and deleted again with success
C2_Witness ==
    /\ hist # <<>>
    /\ hist[1].op = "delete_index"
    /\ hist[1].ret.ok
    /\ hist[1].calls = <<"indices.exists", "indices.delete">>
    /\ req.op = "delete_index"
    /\ ret.ok
    /\ calls = <<"indices.exists">>
    /\ ~Movies.exists


\* C3, as claimed: loading N >= 2 documents of which the store rejects exactly
\* one reports N-1 successes to the caller, and the other N-1 documents are
\* in the index afterwards
C3_BulkReportsCounts ==
    (/\ req.op = "load_movie_data" /\ req.file = "ok" /\ req.fault = 0
     /\ Len(req.docs) >= 2 /\ Rejected(req.docs) = 1)
        => /\ resp.status = 200
           /\ resp.count = Len(req.docs) - 1
           /\ \A i \in 1..Len(req.docs) :
                 ~req.docs[i].malformed
                    => \E j \in 1..Len(Movies.docs) :
                          /\ Movies.docs[j].source.name = req.docs[i].name
                          /\ Movies.docs[j].source.oscar = req.docs[i].oscar

SearchModes ==
    {"search", "fuzzy_search", "advanced_fuzzy_search", "wildcard_search",
     "regexp_search", "suggest", "movies", "movies_by_year"}

\* the modes that have an HTTP handler
HandledModes == SearchModes \ {"regexp_search"}

\* C4, as claimed: in every search mode a transport failure of the store
\* call reaches the caller as a failure, never as a successful empty result
C4_TransportFailureSurfaces ==
    (req.op \in SearchModes /\ req.fault = 1)
        => /\ ret.kind = "none"
           /\ req.op \in HandledModes
                 => /\ resp.form = "error"
                    /\ ~(resp.status = 200 /\ resp.movies = <<>>)

\* what a mode makes of one raw hit
Derived(op, hit) ==
    IF op \in {"fuzzy_search", "advanced_fuzzy_search"}
    THEN [source |-> hit.source, score |-> hit.score, id |-> hit.id]
    ELSE hit.source

HitModes == SearchModes \ {"suggest"}

\* what the caller of a mode receives: the HTTP body, or EsClient's list
\* for the mode without a handler
Returned == IF req.op \in HandledModes THEN resp.movies ELSE ret.items

SliceLen(len, n) == IF n >= 0 THEN Min(n, len) ELSE Max(len + n, 0)

C8_KeywordProvisioned ==
    (Movies.exists /\ Movies.mapping = create_movie_mapping)
        => /\ \A m \in Movies.mapping : m.type = "text" => m.keyword
           /\ req.op \in {"wildcard_search", "regexp_search"}
                 => \E m \in Movies.mapping : m.field = req.field /\ m.keyword

\* C9: every document in the store has a timestamp; a document written
\* without one has the time of the call, one written with a timestamp has
\* its own, and nothing else of it is changed
Written(given) ==
    [given EXCEPT !.hasTs = TRUE,
                  !.timestamp = IF given.hasTs THEN given.timestamp ELSE req.now]

C9_TimestampsStamped ==
    /\ \A i \in 1..Len(Movies.docs) : Movies.docs[i].source.hasTs
    /\ (req.op = "index_document" /\ ret.kind = "id")
          => \E j \in 1..Len(Movies.docs) :
                /\ Movies.docs[j].id = ret.id
                /\ Movies.docs[j].source = Written(req.docs[1])
    /\ (req.op = "load_movie_data" /\ Issued("bulk") /\ req.fault = 0)
          => LET given == Accepted(req.docs)
                 n == Len(Movies.docs)
             IN  /\ n >= Len(given)
                 /\ \A i \in 1..Len(given) :
                       Movies.docs[n - Len(given) + i].source = Written(given[i])

\* one load wrote a document that had no timestamp and one that had
C9_Witness ==
    /\ req.op = "load_movie_data"
    /\ ret.ok
    /\ Len(Movies.docs) = 2
    /\ ~req.docs[1].hasTs
    /\ Movies.docs[1].source.timestamp = req.now
    /\ req.docs[2].hasTs
    /\ Movies.docs[2].source.timestamp = req.docs[2].timestamp
    /\ req.docs[2].timestamp # req.now

\* C10, as claimed: a raw response without the suggestion section, with an
\* empty list of suggestion groups, without the hits section or without
\* the aggregation section is an empty result, which is not what a failed
\* store call gives
C10_MissingKeysAreEmpty ==
    /\ (req.op = "suggest" /\ raw.ok /\ (~raw.hasSuggest \/ raw.groups = <<>>))
          => ret = RetList(<<>>)
    /\ (req.op \in {"search", "fuzzy_search", "advanced_fuzzy_search",
                    "wildcard_search", "regexp_search"} /\ raw.ok /\ ~raw.hasHits)
          => ret = RetList(<<>>)
    /\ (req.op \in {"movies", "movies_by_year"} /\ raw.ok /\ ~raw.hasHits)
          => (resp.status = 200 /\ resp.form = "full" /\ resp.movies = <<>>)
    /\ (req.op = "genres" /\ raw.ok /\ ~raw.hasAggs)
          => (resp.status = 200 /\ resp.form = "full" /\ resp.movies = <<>>)


\* the movies list-all(limit, offset) returns in the present state
AllMovies(limit, offset) ==
    get_all_movies(EsClient_search(indices, MOVIE_INDEX, Query("match_all"),
                                   limit, offset, 0, "full")).movies

\* C6, as claimed, of the pages of one movie or more: list-all(a, o)
\* followed, with no write in between, by list-all(b, o + a) returns
\* movies that, put end to end, are the movies of list-all(a + b, o)
C6_PagesConcatenate ==
    (/\ req.op = "movies" /\ resp.status = 200
     /\ hist # <<>> /\ hist[1].resp.status = 200
     /\ hist[1].size >= 1 /\ req.size >= 1 /\ hist[1].from >= 0
     /\ req.from = hist[1].from + hist[1].size)
        => hist[1].resp.movies \o resp.movies
              = AllMovies(hist[1].size + req.size, hist[1].from)

\* the same of the pages the store answered
C6_PagesConcatenateWhenAnswered ==
    (/\ req.op = "movies" /\ resp.form = "full"
     /\ hist # <<>> /\ hist[1].resp.form = "full"
     /\ req.from = hist[1].from + hist[1].size)
        => hist[1].resp.movies \o resp.movies
              = AllMovies(hist[1].size + req.size, hist[1].from)

InList(x, s) == \E j \in 1..Len(s) : s[j].source = x

DataOps ==
    SearchModes \cup {"genres", "index_document", "load_movie_data",
                      "get_document", "update_document", "delete_document"}

\* C11: a search, document or bulk operation sends the store at most one
\* request; when that request fails the operation returns its failure
\* value with no further request and the store as it was
C11_OneAttempt ==
    req.op \in DataOps
        => /\ Len(calls) <= 1
           /\ (req.fault = 1 /\ calls # <<>>)
                 => /\ Len(calls) = 1
                    /\ ~ret.ok
                    /\ ~raw.ok

\* a search whose one request failed in transport
C11_Witness ==
    /\ req.op = "fuzzy_search"
    /\ req.fault = 1
    /\ Len(Movies.docs) > 0
    /\ calls = <<"search">>
    /\ ret = RetNone


\* the characters of a text as it is written, a blank between its words
RECURSIVE Spelled(_)
Spelled(text) ==
    IF Len(text) = 0 THEN <<>>
    ELSE IF Len(text) = 1 THEN text[1]
    ELSE Spelled(SubSeq(text, 1, Len(text) - 1)) \o <<" ">> \o text[Len(text)]

\* the whole value of the queried field of a returned document, lower-cased
WholeValue(source) == LowerWord(Spelled(FieldText(source, req.field)))

\* what the patterns of Patterns ask of a whole value
BeginsWithWar(v) == Len(v) >= 3 /\ SubSeq(v, 1, 3) = <<"w", "a", "r">>
EndsWithR(v) == Len(v) >= 1 /\ v[Len(v)] = "r"
IsWaAndOne(v) == Len(v) = 3 /\ SubSeq(v, 1, 2) = <<"w", "a">>

\* C12: a wildcard search with pattern "war*" returns only documents whose
\* whole field value begins with "war", compared without regard to case;
\* "*r" only documents whose whole value ends with "r" and "Wa?" only
\* documents whose whole value is "wa" and one more character, whatever
\* the words of the value are; when the store returns all its matches,
\* every stored document whose name begins with "war" is returned
C12_WildcardWholeValue ==
    (req.op = "wildcard_search" /\ ret.kind = "list")
        => /\ \A i \in 1..Len(ret.items) :
                 LET v == WholeValue(ret.items[i]) IN
                 /\ req.term = <<"w", "a", "r", "*">> => BeginsWithWar(v)
                 /\ req.term = <<"*", "r">> => EndsWithR(v)
                 /\ req.term = <<"W", "a", "?">> => IsWaAndOne(v)
           /\ resp.movies = ret.items
           /\ (/\ req.term = <<"w", "a", "r", "*">> /\ req.field = "name"
               /\ raw.hasHits /\ req.size >= Len(Movies.docs))
                 => \A j \in 1..Len(Movies.docs) :
                       BeginsWithWar(WholeValue(Movies.docs[j].source))
                          => \E i \in 1..Len(ret.items) :
                                ret.items[i] = Movies.docs[j].source

\* "war*" on name returned "War Horse" and left out a stored document
\* whose name does not begin with "war"
C12_Witness ==
    /\ req.op = "wildcard_search"
    /\ req.term = <<"w", "a", "r", "*">>
    /\ req.field = "name"
    /\ Len(Movies.docs) = 2
    /\ Len(resp.movies) = 1
    /\ resp.movies[1].name = WarHorse.name
    /\ \E j \in 1..2 : ~BeginsWithWar(WholeValue(Movies.docs[j].source))


\* what get_document returns when its request fails in transport
GetFailure == EsClient_get_document(indices, MOVIE_INDEX, req.id, 1).ret

\* C13, as claimed, of an index that holds documents: get_document returns
\* the stored document when the id exists, and when it does not, a
\* not-found outcome that is not the outcome of a transport failure of the
\* same call
C13_NotFoundIsExplicit ==
    (req.op = "get_document" /\ req.fault = 0 /\ Len(Movies.docs) >= 1)
        => /\ Holds(Movies, req.id) => ret = RetDoc(Stored(Movies, req.id))
           /\ ~Holds(Movies, req.id) => ret # GetFailure

\* the part of C13 that holds: a stored document is returned as it is
\* stored, and get_document changes nothing
C13_StoredIsReturned ==
    [][ (Idle /\ req'.op = "get_document")
          => /\ indices' = indices
             /\ (req'.fault = 0 /\ Holds(Movies, req'.id))
                   => ret' = RetDoc(Stored(Movies, req'.id)) ]_vars


\* C14, as claimed: of the create_index calls that run at the same time,
\* every one that returns without a transport failure returns True, and the
\* index then exists with the given mapping
C14_ConcurrentCreatesSucceed ==
    \A p \in Callers :
        (callers[p].pc = "done" /\ ~callers[p].faulted)
            => /\ callers[p].ok
               /\ Movies.exists
               /\ Movies.mapping = create_movie_mapping

\* the part of C14 that holds: the index is created once, with the given
\* mapping, and a call that returns True leaves it existing
C14_IndexEndsUpCreated ==
    /\ Movies.exists => (Movies.mapping = create_movie_mapping /\ Movies.docs = <<>>)
    /\ \A p \in Callers : (callers[p].pc = "done" /\ callers[p].ok) => Movies.exists


\* C15, as claimed: load-data answers 404 when its data file does not
\* exist and 400 when the file is not valid JSON, and writes no document
\* in either case
C15_FileErrorsReported ==
    [][ (Idle /\ req'.op = "load_movie_data" /\ req'.file \in {"missing", "invalid"})
          => /\ resp'.status = IF req'.file = "missing" THEN 404 ELSE 400
             /\ resp'.status # 500
             /\ indices' = indices
             /\ calls' = <<>> ]_vars

\* the part of C15 that holds: a file that is not valid JSON is answered
\* with 400, and no file error sends anything to the store
C15_InvalidJsonIs400 ==
    [][ (Idle /\ req'.op = "load_movie_data" /\ req'.file # "ok")
          => /\ req'.file = "invalid" => resp'.status = 400
             /\ indices' = indices
             /\ calls' = <<>> ]_vars


\* C16, as claimed: an exact search the store answers returns, for a
\* positive size, min(size, number of matching documents) documents, and
\* reports as count the number of documents it returns
C16_CountIsReturned ==
    (req.op = "search" /\ resp.form = "full" /\ req.size >= 1)
        => /\ Len(resp.movies) = Min(req.size, raw.total)
           /\ resp.count = Len(resp.movies)

\* what exact search does report: count is the number of hits the store
\* returned for its default size, whatever the size of the call
C16_CountIsHits ==
    (req.op = "search" /\ resp.form = "full")
        => /\ resp.count = Len(raw.hits)
           /\ Len(raw.hits) = Min(DefaultSize, raw.total)
           /\ Len(resp.movies) = SliceLen(Len(raw.hits), req.size)


\* the search-mode and browse operations
ReadOps == SearchModes \cup {"genres", "health"}

\* nothing of an earlier call is left when a call begins
NothingKept ==
    /\ calls = <<>>
    /\ raw = NoRaw
    /\ ret = RetNone
    /\ resp = NoResp

\* C17: every search-mode and browse operation leaves the indices, their
\* mappings and their documents as they are and changes nothing but the
\* record of the call itself, of which nothing is left when the next call
\* begins: a call starts from the store state and its arguments alone
C17_ReadsChangeNothing ==
    [][ /\ Idle => NothingKept
        /\ (Idle /\ req'.op \in ReadOps)
              => /\ indices' = indices
                 /\ hist' = hist
                 /\ callers' = callers ]_vars

\* a search found documents, in an index that a load had filled
C17_Witness ==
    /\ req.op = "advanced_fuzzy_search"
    /\ Len(Movies.docs) = 2
    /\ Len(resp.movies) >= 1
    /\ Movies.mapping = create_movie_mapping


\* C17 for a call made twice: the same page of list-all asked for again,
\* with no write in between, has the same movies, and the same term
\* searched again the same results
C17_SameCallSameMovies ==
    (/\ req.op \in {"movies", "search"} /\ hist # <<>> /\ hist[1].op = req.op
     /\ hist[1].size = req.size /\ hist[1].from = req.from /\ hist[1].term = req.term
     /\ resp.form = "full" /\ hist[1].resp.form = "full")
        => resp.movies = hist[1].resp.movies

=============================================================================
